---- MODULE Spec2Model ----
(***************************************************************************)
(* The two prefix stores of package autocomplete: the trie (trie.go) and   *)
(* the ternary search tree (tst.go).                                       *)
(*                                                                         *)
(* A Go string is a sequence of bytes, modelled as a sequence of integers  *)
(* in 0..255.  The trie walks a word with `range`, which decodes UTF-8     *)
(* into runes; the ternary tree indexes the word byte by byte and turns    *)
(* each byte into a rune; both build their results with string(rune),      *)
(* which encodes a rune as UTF-8.  A node graph is a value: a pointer is   *)
(* either NIL or the record of the node it points to.                      *)
(*                                                                         *)
(* One instance of each backend receives every call (trieRoot, tstRoot).   *)
(* Next to each runs a reference instance (refTrie, refTst) that is        *)
(* constructed anew whenever the store is cleared and receives the same    *)
(* calls from then on.                                                     *)
(*                                                                         *)
(* Spec makes the calls one at a time.  ConcSpec has goroutines make them  *)
(* concurrently under each store's RWMutex, and ReadSpec is a batch of     *)
(* readers alone; LockSpec follows each goroutine's call to its return and *)
(* ListSpec lists the stores while goroutines insert.  FormatSpec is       *)
(* DefaultFormat.FormatRead (formatter.go), CloseSpec is                   *)
(* AutocompleteService.Add and Close and ServiceSpec every method of the   *)
(* service (autocomplete.go).                                              *)
(***************************************************************************)
EXTENDS Integers, Sequences, FiniteSets, TLC

VARIABLES
  trieRoot,   \* trie.Root of the trie store
  tstRoot,    \* ternarysearchtree.Root of the ternary store
  refTrie,    \* Root of the reference trie
  refTst,     \* Root of the reference ternary store
  trieWords,  \* words whose Insert returned on the trie since construction or Clear
  tstWords,   \* the same for the ternary store
  before,     \* per backend, the words inserted before the latest Clear
  cleared,    \* Clear has been called
  nCalls,     \* number of Insert and Clear calls so far; of a service, of
              \* the calls that hand its store to a provider
  last,       \* the latest call: its name, argument and what each store returned
  mu,         \* per store, the state of its sync.RWMutex
  thr,        \* per goroutine, the store call it is making
  fmt,        \* the latest DefaultFormat.FormatRead call and what it returned
  svc         \* the AutocompleteService and the providers of its configuration

vars == <<trieRoot, tstRoot, refTrie, refTst, trieWords, tstWords, before,
          cleared, nCalls, last, mu, thr, fmt, svc>>

\* Number of mutating calls (Insert, Clear) in one run.
MaxCalls == 3

\* Number of goroutines that call a store concurrently.
NThreads == 2

\* Number of data sources in the configuration of a service.
MaxSources == 2

\* Number of Close calls on a service in one run.
MaxCloses == 2

\* Number of calls in one run that hand the store of a service to a provider.
MaxLoads == 1

Threads == 1 .. NThreads

\* The words and prefixes the callers use, all valid UTF-8: the empty string,
\* "a", "b", "ab", "aé", "é" (U+00E9 is the two bytes 195 169).
Words ==
  { <<>>, <<97>>, <<98>>, <<97, 98>>, <<97, 195, 169>>, <<195, 169>> }

\* The words the ternary store's constructor is given ("" constructs it empty).
Seeds == { <<>>, <<97, 98>> }

Range(s) == { s[i] : i \in DOMAIN s }

NoDup(s) == \A i, j \in DOMAIN s : s[i] = s[j] => i = j

IsPrefix(p, w) == Len(p) <= Len(w) /\ SubSeq(w, 1, Len(p)) = p

NIL == [nil |-> TRUE]

PANIC == [panic |-> TRUE]

\* What a call gave its caller: how it ended, the boolean it returned (FALSE
\* when it returns none) and the words it returned (none when it returns none).
Done == [out |-> "ok", found |-> FALSE, words |-> <<>>]

Found(b) == [out |-> "ok", found |-> b, words |-> <<>>]

Listed(l) == [out |-> "ok", found |-> FALSE, words |-> l]

Panicked == [out |-> "panic", found |-> FALSE, words |-> <<>>]

\* The call returned a non-nil error.
Failed == [out |-> "error", found |-> FALSE, words |-> <<>>]

(***************************************************************************)
(* UTF-8, as the Go runtime does it.                                       *)
(***************************************************************************)

\* string(r) for a rune r: the UTF-8 encoding of r (up to three bytes).
EncodeRune(r) ==
  IF r < 128 THEN <<r>>
  ELSE IF r < 2048 THEN <<192 + (r \div 64), 128 + (r % 64)>>
  ELSE <<224 + (r \div 4096), 128 + ((r \div 64) % 64), 128 + (r % 64)>>

IsCont(b) == b >= 128 /\ b <= 191

\* `for _, r := range s`: the runes of s; a byte that starts no valid
\* encoding yields U+FFFD (65533) and is skipped alone.
RECURSIVE DecodeRunes(_)
DecodeRunes(s) ==
  IF s = <<>> THEN <<>>
  ELSE IF s[1] < 128 THEN <<s[1]>> \o DecodeRunes(Tail(s))
  ELSE IF s[1] >= 194 /\ s[1] <= 223 /\ Len(s) >= 2 /\ IsCont(s[2])
    THEN <<(s[1] - 192) * 64 + (s[2] - 128)>> \o DecodeRunes(SubSeq(s, 3, Len(s)))
  ELSE IF /\ s[1] >= 224 /\ s[1] <= 239 /\ Len(s) >= 3 /\ IsCont(s[2]) /\ IsCont(s[3])
          /\ (s[1] - 224) * 4096 + (s[2] - 128) * 64 + (s[3] - 128) >= 2048
    THEN <<(s[1] - 224) * 4096 + (s[2] - 128) * 64 + (s[3] - 128)>>
           \o DecodeRunes(SubSeq(s, 4, Len(s)))
  ELSE <<65533>> \o DecodeRunes(Tail(s))

(***************************************************************************)
(* trie                                                                    *)
(***************************************************************************)

\* &trieNode{children: make(map[rune]*trieNode)}
newTrieNode == [children |-> <<>>, isEnd |-> FALSE]

newTrie == newTrieNode

\* trieInsertLoop with the `if _, ok := curr.children[r]; !ok` test left out:
\* the child is created anew at every step.
RECURSIVE trieInsertLoopAlwaysNew(_, _)
trieInsertLoopAlwaysNew(curr, rs) ==
  IF rs = <<>> THEN [curr EXCEPT !.isEnd = TRUE]
  ELSE LET r == Head(rs)
       IN [curr EXCEPT !.children =
             [k \in (DOMAIN curr.children) \cup {r} |->
                IF k = r THEN trieInsertLoopAlwaysNew(newTrieNode, Tail(rs))
                ELSE curr.children[k]]]

\* The loop of trie.Insert from node curr over the runes rs, and the final
\* curr.isEnd = true.
RECURSIVE trieInsertLoop(_, _)
trieInsertLoop(curr, rs) ==
  IF rs = <<>> THEN [curr EXCEPT !.isEnd = TRUE]
  ELSE LET r == Head(rs)
           child == IF r \in DOMAIN curr.children THEN curr.children[r]
                    ELSE newTrieNode
       IN [curr EXCEPT !.children =
             [k \in (DOMAIN curr.children) \cup {r} |->
                IF k = r THEN trieInsertLoop(child, Tail(rs))
                ELSE curr.children[k]]]

\* trie.Insert: the root after the call.
trieInsert(root, word) ==
  trieInsertLoop(IF root = NIL THEN newTrieNode ELSE root, DecodeRunes(word))

\* The descent of Contains and Autocomplete: the node at the end of rs, NIL
\* when a child is missing.
RECURSIVE trieDescend(_, _)
trieDescend(curr, rs) ==
  IF rs = <<>> THEN curr
  ELSE IF Head(rs) \in DOMAIN curr.children
    THEN trieDescend(curr.children[Head(rs)], Tail(rs))
  ELSE NIL

\* trie.Contains: a nil root is dereferenced.
trieContains(root, word) ==
  IF root = NIL THEN Panicked
  ELSE LET n == trieDescend(root, DecodeRunes(word))
       IN Found(n # NIL /\ n.isEnd)

\* findAllChildren: every sequence the depth-first walk can append; the
\* order of a map's range is not fixed, so rangeChildren takes the children
\* in every order.
RECURSIVE findAllChildren(_, _), rangeChildren(_, _, _)
findAllChildren(node, prefix) ==
  { (IF node.isEnd THEN <<prefix>> ELSE <<>>) \o rest :
      rest \in rangeChildren(node, DOMAIN node.children, prefix) }

rangeChildren(node, keys, prefix) ==
  IF keys = {} THEN { <<>> }
  ELSE UNION { { first \o rest :
                   first \in findAllChildren(node.children[r], prefix \o EncodeRune(r)),
                   rest \in rangeChildren(node, keys \ {r}, prefix) } :
               r \in keys }

\* trie.Autocomplete: the results the call can return.
trieAutocomplete(root, prefix) ==
  IF root = NIL THEN { Panicked }
  ELSE LET n == trieDescend(root, DecodeRunes(prefix))
       IN IF n = NIL THEN { Listed(<<>>) }
          ELSE { Listed(res) : res \in findAllChildren(n, prefix) }

\* trie.ListContents: the walk starts at the root's children with the
\* prefix string(r); the root's own isEnd is not looked at.
trieListContents(root) ==
  IF root = NIL THEN { Listed(<<>>) }
  ELSE { Listed(res) : res \in rangeChildren(root, DOMAIN root.children, <<>>) }

\* trie.Clear
trieClear == newTrieNode

\* The label of a node line of the graph description: val, and "*" on a
\* node whose end flag is set.
trieDotLabel(node, val) == val \o (IF node.isEnd THEN <<42>> ELSE <<>>)

\* writeDot(w, node, val): the node lines written, in order, to a writer
\* that never fails (an edge line carries nothing but two node addresses);
\* the children are ranged over as a map, in every order.
RECURSIVE writeDot(_, _), rangeDot(_, _)
writeDot(node, val) ==
  { <<trieDotLabel(node, val)>> \o rest : rest \in rangeDot(node, DOMAIN node.children) }

rangeDot(node, keys) ==
  IF keys = {} THEN { <<>> }
  ELSE UNION { { first \o rest :
                   first \in writeDot(node.children[r], EncodeRune(r)),
                   rest \in rangeDot(node, keys \ {r}) } :
               r \in keys }

\* trie.Visualize with a writer that never fails: an error when the root is
\* nil, the node lines otherwise.  "root" is 114 111 111 116.
trieVisualize(root) ==
  IF root = NIL THEN { Failed }
  ELSE { Listed(lines) : lines \in writeDot(root, <<114, 111, 111, 116>>) }

(***************************************************************************)
(* ternarysearchtree                                                       *)
(***************************************************************************)

\* nNewTSTNode(char)
nNewTSTNode(char) ==
  [Char |-> char, Left |-> NIL, Mid |-> NIL, Right |-> NIL, IsEnd |-> FALSE]

\* insert that sets IsEnd on every node whose character it matches, not on
\* the last one alone.
RECURSIVE insertMarksPrefixes(_, _, _)
insertMarksPrefixes(node, word, index) ==
  IF index < 0 \/ index >= Len(word) THEN PANIC
  ELSE LET char == word[index + 1]
           n == IF node = NIL THEN nNewTSTNode(char) ELSE node
       IN IF char < n.Char THEN
            LET l == insertMarksPrefixes(n.Left, word, index)
            IN IF l = PANIC THEN PANIC ELSE [n EXCEPT !.Left = l]
          ELSE IF char > n.Char THEN
            LET r == insertMarksPrefixes(n.Right, word, index)
            IN IF r = PANIC THEN PANIC ELSE [n EXCEPT !.Right = r]
          ELSE IF index < Len(word) - 1 THEN
            LET m == insertMarksPrefixes(n.Mid, word, index + 1)
            IN IF m = PANIC THEN PANIC ELSE [n EXCEPT !.Mid = m, !.IsEnd = TRUE]
          ELSE [n EXCEPT !.IsEnd = TRUE]

\* insert that resets IsEnd on the nodes it passes on the way to Mid.
RECURSIVE insertResetsPassed(_, _, _)
insertResetsPassed(node, word, index) ==
  IF index < 0 \/ index >= Len(word) THEN PANIC
  ELSE LET char == word[index + 1]
           n == IF node = NIL THEN nNewTSTNode(char) ELSE node
       IN IF char < n.Char THEN
            LET l == insertResetsPassed(n.Left, word, index)
            IN IF l = PANIC THEN PANIC ELSE [n EXCEPT !.Left = l]
          ELSE IF char > n.Char THEN
            LET r == insertResetsPassed(n.Right, word, index)
            IN IF r = PANIC THEN PANIC ELSE [n EXCEPT !.Right = r]
          ELSE IF index < Len(word) - 1 THEN
            LET m == insertResetsPassed(n.Mid, word, index + 1)
            IN IF m = PANIC THEN PANIC ELSE [n EXCEPT !.Mid = m, !.IsEnd = FALSE]
          ELSE [n EXCEPT !.IsEnd = TRUE]

\* insert that goes to Right whenever the characters differ.
RECURSIVE insertAlwaysRight(_, _, _)
insertAlwaysRight(node, word, index) ==
  IF index < 0 \/ index >= Len(word) THEN PANIC
  ELSE LET char == word[index + 1]
           n == IF node = NIL THEN nNewTSTNode(char) ELSE node
       IN IF char # n.Char THEN
            LET r == insertAlwaysRight(n.Right, word, index)
            IN IF r = PANIC THEN PANIC ELSE [n EXCEPT !.Right = r]
          ELSE IF index < Len(word) - 1 THEN
            LET m == insertAlwaysRight(n.Mid, word, index + 1)
            IN IF m = PANIC THEN PANIC ELSE [n EXCEPT !.Mid = m]
          ELSE [n EXCEPT !.IsEnd = TRUE]

\* insert(node, word, index): the node returned, PANIC when word[index] is
\* out of range.  index counts from 0 as in the source.
RECURSIVE insert(_, _, _)
insert(node, word, index) ==
  IF index < 0 \/ index >= Len(word) THEN PANIC
  ELSE LET char == word[index + 1]
           n == IF node = NIL THEN nNewTSTNode(char) ELSE node
       IN IF char < n.Char THEN
            LET l == insert(n.Left, word, index)
            IN IF l = PANIC THEN PANIC ELSE [n EXCEPT !.Left = l]
          ELSE IF char > n.Char THEN
            LET r == insert(n.Right, word, index)
            IN IF r = PANIC THEN PANIC ELSE [n EXCEPT !.Right = r]
          ELSE IF index < Len(word) - 1 THEN
            LET m == insert(n.Mid, word, index + 1)
            IN IF m = PANIC THEN PANIC ELSE [n EXCEPT !.Mid = m]
          ELSE [n EXCEPT !.IsEnd = TRUE]

\* ternarysearchtree.Insert: the outcome and the root after the call; a
\* panic leaves t.Root unassigned.
tstInsert(root, word) ==
  LET r == insert(root, word, 0)
  IN IF r = PANIC THEN [ret |-> Panicked, root |-> root]
     ELSE [ret |-> Done, root |-> r]

\* contains(node, word, index): word[index] is read before the nil check.
RECURSIVE contains(_, _, _)
contains(node, word, index) ==
  IF index < 0 \/ index >= Len(word) THEN PANIC
  ELSE LET char == word[index + 1]
       IN IF node = NIL THEN NIL
          ELSE IF char < node.Char THEN contains(node.Left, word, index)
          ELSE IF char > node.Char THEN contains(node.Right, word, index)
          ELSE IF index < Len(word) - 1 THEN contains(node.Mid, word, index + 1)
          ELSE node

\* Contains without the test of node.IsEnd.
tstContainsAnyNode(root, word) ==
  LET node == contains(root, word, 0)
  IN IF node = PANIC THEN Panicked ELSE Found(node # NIL)

\* ternarysearchtree.Contains
tstContains(root, word) ==
  LET node == contains(root, word, 0)
  IN IF node = PANIC THEN Panicked
     ELSE Found(node # NIL /\ node.IsEnd)

\* getPrefixNode(node, prefix, index): the nil check comes first.
RECURSIVE getPrefixNode(_, _, _)
getPrefixNode(node, prefix, index) ==
  IF node = NIL THEN NIL
  ELSE IF index < 0 \/ index >= Len(prefix) THEN PANIC
  ELSE LET char == prefix[index + 1]
       IN IF char < node.Char THEN getPrefixNode(node.Left, prefix, index)
          ELSE IF char > node.Char THEN getPrefixNode(node.Right, prefix, index)
          ELSE IF index < Len(prefix) - 1 THEN getPrefixNode(node.Mid, prefix, index + 1)
          ELSE node

\* collect that walks self, mid, left, right.
RECURSIVE collectSelfFirst(_, _)
collectSelfFirst(node, prefix) ==
  IF node = NIL THEN <<>>
  ELSE (IF node.IsEnd THEN <<prefix \o EncodeRune(node.Char)>> ELSE <<>>)
       \o collectSelfFirst(node.Mid, prefix \o EncodeRune(node.Char))
       \o collectSelfFirst(node.Left, prefix)
       \o collectSelfFirst(node.Right, prefix)

\* collect(node, prefix, results): what the walk appends, in order left,
\* self, mid, right.
RECURSIVE collect(_, _)
collect(node, prefix) ==
  IF node = NIL THEN <<>>
  ELSE collect(node.Left, prefix)
       \o (IF node.IsEnd THEN <<prefix \o EncodeRune(node.Char)>> ELSE <<>>)
       \o collect(node.Mid, prefix \o EncodeRune(node.Char))
       \o collect(node.Right, prefix)

\* ternarysearchtree.Autocomplete
tstAutocomplete(root, prefix) ==
  LET node == getPrefixNode(root, prefix, 0)
  IN IF node = PANIC THEN Panicked
     ELSE IF node = NIL THEN Listed(<<>>)
     ELSE Listed(collect(node.Mid, prefix))

\* ternarysearchtree.ListContents
tstListContents(root) == Listed(collect(root, <<>>))

\* The node reached from root g by the links of path ("L", "M", "R"), NIL
\* when a link on the way is nil.
RECURSIVE nodeAt(_, _)
nodeAt(g, path) ==
  IF g = NIL \/ path = <<>> THEN g
  ELSE nodeAt(IF Head(path) = "L" THEN g.Left
              ELSE IF Head(path) = "M" THEN g.Mid ELSE g.Right, Tail(path))

\* collect while Insert calls write the tree.  gs[j] is the tree at instant
\* j; a node, once linked, stays where it is and keeps its Char.  The walk
\* is at the node at path, which it reached at instant i; each read of a
\* link or of IsEnd happens at that instant or a later one.  The result is
\* every pair of what the walk appends and the instant it ends at.
RECURSIVE tornCollect(_, _, _, _), tornChild(_, _, _, _)
tornCollect(gs, path, prefix, i) ==
  LET char == nodeAt(gs[i], path).Char
  IN { [words |-> l.words \o self \o m.words \o r.words, at |-> r.at] :
         <<l, self, m, r>> \in
           UNION { UNION { UNION {
             { <<l, (IF nodeAt(gs[j], path).IsEnd
                       THEN <<prefix \o EncodeRune(char)>> ELSE <<>>), m, r>> :
                 r \in tornChild(gs, Append(path, "R"), prefix, m.at) } :
               m \in tornChild(gs, Append(path, "M"), prefix \o EncodeRune(char), j) } :
             j \in l.at .. Len(gs) } :
           l \in tornChild(gs, Append(path, "L"), prefix, i) } }

\* The link that leads to path is read at instant i or later and followed.
tornChild(gs, path, prefix, i) ==
  UNION { IF nodeAt(gs[j], path) = NIL THEN { [words |-> <<>>, at |-> j] }
          ELSE tornCollect(gs, path, prefix, j) : j \in i .. Len(gs) }

\* ternarysearchtree.ListContents, which takes no lock, while the tree goes
\* through the roots gs: the results the call can return.
tstListContentsDuring(gs) ==
  { Listed(r.words) : r \in tornChild(gs, <<>>, <<>>, 1) }

\* Clear that leaves t.Root as it is.
tstClearKeepsRoot == tstRoot

\* ternarysearchtree.Clear: t.Root = &tstNode{}
tstClear == [Char |-> 0, Left |-> NIL, Mid |-> NIL, Right |-> NIL, IsEnd |-> FALSE]

\* dotWriteFunc: the label of a node line; a node whose Char is 0 is labelled
\* "root", a node whose end flag is set gets " *".
dotWriteFunc(n) ==
  (IF n.Char = 0 THEN <<114, 111, 111, 116>> ELSE EncodeRune(n.Char))
    \o (IF n.IsEnd THEN <<32, 42>> ELSE <<>>)

\* ternarysearchtree.writeDot: the list is used as a stack onto which Right,
\* Mid and Left are pushed in that order: the node, then its Left, Mid and
\* Right subtrees.
RECURSIVE tstWriteDot(_)
tstWriteDot(node) ==
  IF node = NIL THEN <<>>
  ELSE <<dotWriteFunc(node)>> \o tstWriteDot(node.Left) \o tstWriteDot(node.Mid)
         \o tstWriteDot(node.Right)

\* ternarysearchtree.Visualize with a writer that never fails.
tstVisualize(root) ==
  IF root = NIL THEN Failed ELSE Listed(tstWriteDot(root))

\* newTernarySearchTree(word): the root of the constructed store.
newTernarySearchTree(word) ==
  IF word = <<>> THEN NIL ELSE tstInsert(NIL, word).root

(***************************************************************************)
(* sync.RWMutex and the goroutines that call a store                       *)
(***************************************************************************)

\* The zero RWMutex: no writer (0 is no goroutine), no readers.
newMutex == [writer |-> 0, readers |-> {}]

\* A goroutine that is making no call.  Of a call, snap is the root the store
\* had when the call began and seen the roots that Insert calls gave the
\* store while a listing that takes no lock was walking it.
idle ==
  [op |-> "none", store |-> "none", arg |-> <<>>, pc |-> "idle",
   snap |-> NIL, seen |-> <<>>, stale |-> FALSE, res |-> Done]

\* No FormatRead call has been made.
NoFormat == fmt = [pc |-> "idle", data |-> <<>>, fileName |-> <<>>,
                   res |-> [out |-> "ok", err |-> "", keywords |-> <<>>]]

\* No service is constructed.
NoService ==
  svc = [LowMemoryMode |-> FALSE, nSources |-> 0, isClosed |-> FALSE,
         Errors |-> <<>>, LastUpdated |-> "none", closes |-> <<>>, nClose |-> 0,
         failed |-> {}, ret |-> <<>>, op |-> "none", arg |-> <<>>, res |-> Done,
         invoked |-> <<>>]

\* The variables of the concurrent calls, of the formatter and of the service
\* while the stores are called directly and one call at a time.
NoThreads ==
  /\ mu = [s \in {"trie", "tst"} |-> newMutex]
  /\ thr = [t \in Threads |-> idle]
  /\ NoFormat
  /\ NoService

(***************************************************************************)
(* The calls of interface autocompleter, made on all stores at once.       *)
(***************************************************************************)

Call(op, arg, t, s, rt, rs) ==
  [op |-> op, arg |-> arg, trie |-> t, tst |-> s, refTrie |-> rt, refTst |-> rs]

Init ==
  \E seed \in Seeds :
    /\ trieRoot = newTrie
    /\ refTrie = newTrie
    /\ tstRoot = newTernarySearchTree(seed)
    /\ refTst = newTernarySearchTree(seed)
    /\ trieWords = {}
    /\ tstWords = {seed} \ { <<>> }
    /\ before = [trie |-> {}, tst |-> {}]
    /\ cleared = FALSE
    /\ nCalls = 0
    /\ last = Call("New", seed, Done, Done, Done, Done)
    /\ NoThreads

Insert(word) ==
  /\ nCalls < MaxCalls
  /\ LET s == tstInsert(tstRoot, word)
         rs == tstInsert(refTst, word)
     IN /\ trieRoot' = trieInsert(trieRoot, word)
        /\ refTrie' = trieInsert(refTrie, word)
        /\ tstRoot' = s.root
        /\ refTst' = rs.root
        /\ trieWords' = trieWords \cup {word}
        /\ tstWords' = IF s.ret.out = "ok" THEN tstWords \cup {word} ELSE tstWords
        /\ last' = Call("Insert", word, Done, s.ret, Done, rs.ret)
  /\ nCalls' = nCalls + 1
  /\ UNCHANGED <<before, cleared, mu, thr, fmt, svc>>

\* Contains that walks the trie as Insert does, creating the children it
\* does not find.
ContainsCreating(word) ==
  /\ last' = Call("Contains", word, trieContains(trieRoot, word),
                  tstContains(tstRoot, word), trieContains(refTrie, word),
                  tstContains(refTst, word))
  /\ trieRoot' = [trieInsert(trieRoot, word) EXCEPT !.isEnd = trieRoot.isEnd]
  /\ UNCHANGED <<tstRoot, refTrie, refTst, trieWords, tstWords, before,
                 cleared, nCalls, mu, thr, fmt, svc>>

Contains(word) ==
  /\ last' = Call("Contains", word, trieContains(trieRoot, word),
                  tstContains(tstRoot, word), trieContains(refTrie, word),
                  tstContains(refTst, word))
  /\ UNCHANGED <<trieRoot, tstRoot, refTrie, refTst, trieWords, tstWords, before,
                 cleared, nCalls, mu, thr, fmt, svc>>

Autocomplete(prefix) ==
  /\ \E t \in trieAutocomplete(trieRoot, prefix), rt \in trieAutocomplete(refTrie, prefix) :
       last' = Call("Autocomplete", prefix, t, tstAutocomplete(tstRoot, prefix),
                    rt, tstAutocomplete(refTst, prefix))
  /\ UNCHANGED <<trieRoot, tstRoot, refTrie, refTst, trieWords, tstWords, before,
                 cleared, nCalls, mu, thr, fmt, svc>>

ListContents ==
  /\ \E t \in trieListContents(trieRoot), rt \in trieListContents(refTrie) :
       last' = Call("ListContents", <<>>, t, tstListContents(tstRoot),
                    rt, tstListContents(refTst))
  /\ UNCHANGED <<trieRoot, tstRoot, refTrie, refTst, trieWords, tstWords, before,
                 cleared, nCalls, mu, thr, fmt, svc>>

Clear ==
  /\ nCalls < MaxCalls
  /\ trieRoot' = trieClear
  /\ tstRoot' = tstClear
  /\ refTrie' = newTrie
  /\ refTst' = newTernarySearchTree(<<>>)
  /\ before' = [trie |-> before.trie \cup trieWords, tst |-> before.tst \cup tstWords]
  /\ trieWords' = {}
  /\ tstWords' = {}
  /\ cleared' = TRUE
  /\ nCalls' = nCalls + 1
  /\ last' = Call("Clear", <<>>, Done, Done, Done, Done)
  /\ UNCHANGED <<mu, thr, fmt, svc>>

Next ==
  \/ \E word \in Words : Insert(word)
  \/ \E word \in Words : Contains(word)
  \/ \E prefix \in Words : Autocomplete(prefix)
  \/ ListContents
  \/ Clear

Spec == Init /\ [][Next]_vars

(***************************************************************************)
(* Properties                                                              *)
(***************************************************************************)

IsListing == last.op \in {"Autocomplete", "ListContents"}

AutocompleteHasSelf ==
  (last.op = "Autocomplete" /\ last.arg \in trieWords /\ last.arg \in tstWords) =>
    /\ last.trie.out = "ok" /\ last.arg \in Range(last.trie.words)
    /\ last.tst.out = "ok" /\ last.arg \in Range(last.tst.words)

\* The part of C3 for one store: res holds only inserted words that begin
\* with p, none twice, and every inserted word that begins with p and is longer.
PrefixResult(r, p, words) ==
  /\ r.out = "ok"
  /\ \A x \in Range(r.words) : x \in words /\ IsPrefix(p, x)
  /\ NoDup(r.words)
  /\ \A w \in words : (IsPrefix(p, w) /\ Len(w) > Len(p)) => w \in Range(r.words)

\* C3: after Insert calls with non-empty words, Autocomplete(p) of a non-empty
\* prefix p returns inserted words that begin with p, without duplicates, and
\* all the inserted words that begin with p and are longer than p.
AutocompletePrefixCorrect ==
  (last.op = "Autocomplete" /\ last.arg # <<>> /\ <<>> \notin trieWords) =>
    /\ PrefixResult(last.trie, last.arg, trieWords)
    /\ PrefixResult(last.tst, last.arg, tstWords)

\* C4: after inserting distinct non-empty words in any order, ListContents
\* returns exactly the inserted words, each once.
ListContentsExact ==
  (last.op = "ListContents" /\ <<>> \notin trieWords) =>
    /\ last.trie.out = "ok" /\ Range(last.trie.words) = trieWords
    /\ Len(last.trie.words) = Cardinality(trieWords)
    /\ last.tst.out = "ok" /\ Range(last.tst.words) = tstWords
    /\ Len(last.tst.words) = Cardinality(tstWords)

\* C5: Insert(w) of a word that is already inserted leaves the node graph,
\* the end flags and the listing of either backend as they were.
InsertIdempotent ==
  [][ (last'.op = "Insert" /\ nCalls' = nCalls + 1) =>
        /\ last'.arg \in trieWords =>
             /\ trieRoot' = trieRoot
             /\ trieListContents(trieRoot') = trieListContents(trieRoot)
        /\ last'.arg \in tstWords =>
             /\ tstRoot' = tstRoot
             /\ tstListContents(tstRoot') = tstListContents(tstRoot) ]_vars

\* "ab" was inserted twice on both backends, "a" once.
InsertedTwice ==
  /\ last.op = "Insert" /\ last.arg = <<97, 98>> /\ nCalls = 3 /\ ~cleared
  /\ trieWords = { <<97>>, <<97, 98>> } /\ tstWords = trieWords

\* C6: after Clear (and before any further Insert) ListContents returns an
\* empty sequence and Contains(w) is false for every word inserted before.
ClearEmpties ==
  (cleared /\ trieWords = {} /\ tstWords = {}) =>
    /\ last.op = "ListContents" => (last.trie = Listed(<<>>) /\ last.tst = Listed(<<>>))
    /\ (last.op = "Contains" /\ last.arg \in before.trie) => last.trie = Found(FALSE)
    /\ (last.op = "Contains" /\ last.arg \in before.tst) => last.tst = Found(FALSE)

\* Contains(w) right after a Clear, w inserted in both stores before it.
ContainsAfterClear ==
  /\ cleared /\ trieWords = {} /\ tstWords = {}
  /\ last.op = "Contains" /\ last.arg \in before.trie /\ last.arg \in before.tst

\* Two stores gave the same outcome and, for a listing, the same words the
\* same number of times.
SameResult(x, y) ==
  /\ x.out = y.out
  /\ x.found = y.found
  /\ Range(x.words) = Range(y.words)
  /\ Len(x.words) = Len(y.words)

\* C7: a store that was cleared answers every later call as a newly
\* constructed store of the same backend given the same calls.
ClearedLikeFresh ==
  cleared => (SameResult(last.trie, last.refTrie) /\ SameResult(last.tst, last.refTst))

\* C8: given the same insertions the two backends return set-equal results
\* for ListContents and for Autocomplete(p), every prefix p.
BackendsSetEqual ==
  (IsListing /\ trieWords = tstWords) =>
    /\ last.trie.out = last.tst.out
    /\ Range(last.trie.words) = Range(last.tst.words)

\* C9: every call on either backend completes normally, and a read on a
\* store without a root returns false or an empty sequence.
OperationsTotal ==
  /\ last.trie.out = "ok" /\ last.tst.out = "ok"
  /\ (tstRoot = NIL /\ last.op = "Contains") => last.tst = Found(FALSE)
  /\ (tstRoot = NIL /\ IsListing) => last.tst = Listed(<<>>)

\* C10: Insert("") completes normally on either backend in every state.
InsertEmptyCompletes ==
  (last.op = "Insert" /\ last.arg = <<>>) =>
    (last.trie.out = "ok" /\ last.tst.out = "ok")

\* C11: on both backends Autocomplete(p), for a prefix p that no inserted
\* word begins with, returns an empty sequence and does not fail, in every
\* state, the empty store included.
AutocompleteUnreachableEmpty ==
  last.op = "Autocomplete" =>
    /\ (\A w \in trieWords : ~IsPrefix(last.arg, w)) => last.trie = Listed(<<>>)
    /\ (\A w \in tstWords : ~IsPrefix(last.arg, w)) => last.tst = Listed(<<>>)

\* C12: the order of results is fixed by the backend and the insertion
\* history: all the sequences Autocomplete(p) can return from one node graph
\* are the same sequence, and so are those of ListContents.  (The ternary
\* store's collect walks left, self, mid, right: one sequence per graph.)
ResultOrderDeterministic ==
  /\ \A p \in Words :
       \A r1, r2 \in trieAutocomplete(trieRoot, p) : r1 = r2
  /\ \A r1, r2 \in trieListContents(trieRoot) : r1 = r2

\* The nodes of a trie below node, each with the runes on its path from the
\* root and its end flag (children is a map: one child per rune).
RECURSIVE triePaths(_, _)
triePaths(node, path) ==
  { [path |-> path, isEnd |-> node.isEnd] }
    \cup UNION { triePaths(node.children[r], Append(path, r)) :
                 r \in DOMAIN node.children }

\* The nodes of a ternary tree below node, each with the bytes its path
\* spells and its end flag: Left and Right continue the same position, Mid
\* moves to the next one.
RECURSIVE tstPaths(_, _)
tstPaths(node, path) ==
  IF node = NIL THEN <<>>
  ELSE tstPaths(node.Left, path)
       \o << [path |-> Append(path, node.Char), isEnd |-> node.IsEnd] >>
       \o tstPaths(node.Mid, Append(path, node.Char))
       \o tstPaths(node.Right, path)

\* C16: in both backends, each inserted word is spelled by exactly one path
\* from the root, that path ends at a node whose end flag is set, and a
\* node's end flag is set only if the string its path spells was inserted.
PathsSpellInserted ==
  /\ \A w \in trieWords :
       /\ Cardinality({ n \in triePaths(trieRoot, <<>>) : n.path = DecodeRunes(w) }) = 1
       /\ \A n \in triePaths(trieRoot, <<>>) : n.path = DecodeRunes(w) => n.isEnd
  /\ \A n \in triePaths(trieRoot, <<>>) :
       n.isEnd => \E w \in trieWords : DecodeRunes(w) = n.path
  /\ LET ps == tstPaths(tstRoot, <<>>)
     IN /\ \A w \in tstWords :
             /\ Cardinality({ i \in DOMAIN ps : ps[i].path = w }) = 1
             /\ \A i \in DOMAIN ps : ps[i].path = w => ps[i].isEnd
        /\ \A i \in DOMAIN ps : ps[i].isEnd => ps[i].path \in tstWords

\* "ab" and "aé" are in both stores, their common prefix "a" is not.
SharedPrefixNotInserted ==
  /\ last.op = "Insert"
  /\ trieWords = { <<97, 98>>, <<97, 195, 169>> } /\ tstWords = trieWords

\* a comes before b in lexicographic order: a is a proper prefix of b, or at
\* the first position where they differ a holds the smaller character.
RECURSIVE LexLess(_, _)
LexLess(a, b) ==
  IF b = <<>> THEN FALSE
  ELSE IF a = <<>> THEN TRUE
  ELSE IF Head(a) # Head(b) THEN Head(a) < Head(b)
  ELSE LexLess(Tail(a), Tail(b))

\* The strings of l, compared character by character, strictly increase.
StrictlyIncreasing(l) ==
  \A i \in 1 .. (Len(l) - 1) : LexLess(DecodeRunes(l[i]), DecodeRunes(l[i + 1]))

\* C21: the sequences the ternary store returns from ListContents and from
\* Autocomplete(p) are in strictly increasing lexicographic order of their
\* characters, whatever the order of the insertions.
TstResultsAscending ==
  (IsListing /\ last.tst.out = "ok") => StrictlyIncreasing(last.tst.words)

\* "b" was inserted first (it is at the root), then "a" and "ab"; the listing
\* is "a", "ab", "b".
ListedAgainstInsertionOrder ==
  /\ last.op = "ListContents" /\ tstRoot # NIL /\ tstRoot.Char = 98
  /\ last.tst = Listed(<< <<97>>, <<97, 98>>, <<98>> >>)

\* C22: in insert, contains and getPrefixNode of the ternary store the index
\* is within 0 .. len(word)-1 whenever the word is indexed, for every word or
\* prefix argument and every reachable tree (the three operators give PANIC
\* exactly when word[index] is read with the index outside that range).
IndexWithinWord ==
  \A w \in Words :
    /\ insert(tstRoot, w, 0) # PANIC
    /\ contains(tstRoot, w, 0) # PANIC
    /\ getPrefixNode(tstRoot, w, 0) # PANIC

\* C24: a Contains, Autocomplete or ListContents call leaves the root and
\* the node graph of both stores as they were (no node created; no child
\* link, character or end flag changed), for every argument, those that are
\* absent from the store included.
ReadsLeaveStore ==
  [][ last'.op \in { "Contains", "Autocomplete", "ListContents" } =>
        (trieRoot' = trieRoot /\ tstRoot' = tstRoot) ]_vars

\* Both stores hold "ab" alone and were asked for "b", which is absent from
\* the first character on, by Contains or by Autocomplete.
AskedForAbsent ==
  /\ last.op \in { "Contains", "Autocomplete" } /\ last.arg = <<98>>
  /\ trieWords = { <<97, 98>> } /\ tstWords = trieWords
  /\ last.trie.out = "ok" /\ last.tst.out = "ok"

\* C25: in the trie, ListContents and Autocomplete("") return the same set
\* of words in every reachable state, and a word is in that set exactly when
\* Contains reports it, also after Insert("") set the end flag of the root.
TrieListingsAgree ==
  \A l \in trieListContents(trieRoot), a \in trieAutocomplete(trieRoot, <<>>) :
    /\ Range(l.words) = Range(a.words)
    /\ \A w \in Words : w \in Range(l.words) <=> trieContains(trieRoot, w).found

\* Every node of the ternary tree below node.
RECURSIVE tstNodes(_)
tstNodes(node) ==
  IF node = NIL THEN {}
  ELSE {node} \cup tstNodes(node.Left) \cup tstNodes(node.Mid) \cup tstNodes(node.Right)

\* The nodes reached from node through Left and Right links only: those at
\* the same position under the same prefix.
RECURSIVE sameLevel(_)
sameLevel(node) ==
  IF node = NIL THEN {}
  ELSE {node} \cup sameLevel(node.Left) \cup sameLevel(node.Right)

\* C28: in the ternary tree every node reached from n.Left through Left and
\* Right links holds a smaller character than n, every node so reached from
\* n.Right a larger one, and no two nodes at the same position under the
\* same prefix hold the same character (no two nodes have the same path).
TstOrdered ==
  /\ \A n \in tstNodes(tstRoot) :
       /\ \A m \in sameLevel(n.Left) : m.Char < n.Char
       /\ \A m \in sameLevel(n.Right) : m.Char > n.Char
  /\ LET ps == tstPaths(tstRoot, <<>>)
     IN \A i, j \in DOMAIN ps : ps[i].path = ps[j].path => i = j

\* The root has a smaller character on its left and a larger on its right,
\* and the word on the left was inserted after the root's.
RootHasBothSides ==
  /\ tstRoot # NIL /\ tstRoot.Left # NIL /\ tstRoot.Right # NIL
  /\ last.op = "Insert" /\ last.arg = <<97>>

\* Every node of graph a is in graph b, at the same path, and its end flag
\* is set in b if it is set in a.
TrieKept(a, b) ==
  \A n \in triePaths(a, <<>>) :
    \E m \in triePaths(b, <<>>) : m.path = n.path /\ (n.isEnd => m.isEnd)

TstKept(a, b) ==
  LET pa == tstPaths(a, <<>>)
      pb == tstPaths(b, <<>>)
  IN \A i \in DOMAIN pa :
       \E j \in DOMAIN pb : pb[j].path = pa[i].path /\ (pa[i].isEnd => pb[j].isEnd)

HoldsIdentical(r, p, words) ==
  \A w \in words \ { <<>> } :
    (IsPrefix(p, w) /\ p # w) => w \in Range(r.words)

\* C30: on both backends, after Insert(w) of a non-empty word w, multi-byte
\* characters included, the sequence ListContents returns holds a string
\* identical to w, and so does the sequence Autocomplete returns for a
\* proper prefix of w.
WordsSurvive ==
  /\ last.op = "ListContents" =>
       /\ last.trie.out = "ok" => HoldsIdentical(last.trie, <<>>, trieWords)
       /\ last.tst.out = "ok" => HoldsIdentical(last.tst, <<>>, tstWords)
  /\ last.op = "Autocomplete" =>
       /\ last.trie.out = "ok" => HoldsIdentical(last.trie, last.arg, trieWords)
       /\ last.tst.out = "ok" => HoldsIdentical(last.tst, last.arg, tstWords)

(***************************************************************************)
(* Concurrent calls.  A goroutine begins a call (taking the lock the       *)
(* method takes, and reading the Root pointer), is then inside the call,   *)
(* and finishes it (its result or effect, and the deferred unlock).        *)
(***************************************************************************)

Stores == { "trie", "tst" }

\* The words and prefixes the concurrent callers use: "a", "ab".
ConcWords == { <<97>>, <<97, 98>> }

Ops == { "Insert", "Clear", "Contains", "Autocomplete", "ListContents", "Visualize" }

ArgsOf(op) ==
  IF op \in { "Insert", "Contains", "Autocomplete" } THEN ConcWords ELSE { <<>> }

\* LockMode with Visualize taking no lock.
LockModeVisualizeUnlocked(store, op) ==
  IF op = "Insert" THEN "write"
  ELSE IF op = "Contains" THEN "read"
  ELSE IF op = "Autocomplete" /\ store = "tst" THEN "read"
  ELSE "none"

\* The lock a method takes: Insert t.mu.Lock(); Contains and Visualize
\* t.mu.RLock(); Autocomplete t.mu.RLock() in the ternary store and none in
\* the trie (the two lines are commented out); ListContents and Clear none.
LockMode(store, op) ==
  IF op = "Insert" THEN "write"
  ELSE IF op \in { "Contains", "Visualize" } THEN "read"
  ELSE IF op = "Autocomplete" /\ store = "tst" THEN "read"
  ELSE "none"

\* RLock that returns only when no other reader holds the lock.
CanRLockAlone(m) == m.writer = 0 /\ m.readers = {}

\* Lock() returns when there is no writer and no reader.
CanLock(m) == m.writer = 0 /\ m.readers = {}

\* RLock() returns when there is no writer.
CanRLock(m) == m.writer = 0

Acquire(m, t, mode) ==
  IF mode = "write" THEN [m EXCEPT !.writer = t]
  ELSE IF mode = "read" THEN [m EXCEPT !.readers = @ \cup {t}]
  ELSE m

\* Release without the deferred Unlock() of a writer.
ReleaseReadersOnly(m, t) == [m EXCEPT !.readers = @ \ {t}]

\* The deferred Unlock() or RUnlock() of goroutine t, if it holds the lock.
Release(m, t) ==
  [writer |-> IF m.writer = t THEN 0 ELSE m.writer, readers |-> m.readers \ {t}]

RootOf(store) == IF store = "trie" THEN trieRoot ELSE tstRoot

\* The runtime ended the program (concurrent map read and map write), or
\* the read saw a graph that was being written.
Crashed == [out |-> "fatal", found |-> FALSE, words |-> <<>>]

\* What a reading call returns when it walks the graph g alone.
ReadResults(store, op, arg, g) ==
  IF store = "trie" THEN
    IF op = "Contains" THEN { trieContains(g, arg) }
    ELSE IF op = "Autocomplete" THEN trieAutocomplete(g, arg)
    ELSE IF op = "ListContents" THEN trieListContents(g)
    ELSE trieVisualize(g)
  ELSE
    IF op = "Contains" THEN { tstContains(g, arg) }
    ELSE IF op = "Autocomplete" THEN { tstAutocomplete(g, arg) }
    ELSE IF op = "ListContents" THEN { tstListContents(g) }
    ELSE { tstVisualize(g) }

\* The first lines of a method run by goroutine t: it waits for the lock the
\* method takes and reads t.Root.
Enter(t, store, op, arg) ==
  /\ LockMode(store, op) = "write" => CanLock(mu[store])
  /\ LockMode(store, op) = "read" => CanRLock(mu[store])
  /\ mu' = [mu EXCEPT ![store] = Acquire(@, t, LockMode(store, op))]
  /\ thr' = [thr EXCEPT ![t] =
               [op |-> op, store |-> store, arg |-> arg, pc |-> "in",
                snap |-> RootOf(store), seen |-> <<>>, stale |-> FALSE,
                res |-> Done]]
  /\ UNCHANGED <<trieRoot, tstRoot, refTrie, refTst, trieWords, tstWords, before,
                 cleared, nCalls, last, fmt, svc>>

\* Goroutine t makes a call and is inside it at once.
Begin(t, store, op, arg) == thr[t].pc = "idle" /\ Enter(t, store, op, arg)

\* The roots the store went through during the call of goroutine u, as far
\* as the call can have seen them.
Versions(u) == <<thr[u].snap>> \o thr[u].seen

\* Goroutine u is inside a ListContents or Autocomplete that took no lock,
\* on the graph that is the store's.
Walking(u, store) ==
  /\ thr[u].pc = "in" /\ thr[u].store = store /\ ~thr[u].stale
  /\ thr[u].op \in { "Autocomplete", "ListContents" }
  /\ LockMode(store, thr[u].op) = "none"

\* Insert ends.  The trie's Insert has written into the graph of the root
\* it read, which is no longer the store's if a Clear replaced the root
\* meanwhile; the ternary store's Insert assigns t.Root the node insert
\* returned for the root it read.
FinishInsert(t) ==
  /\ thr[t].pc = "in" /\ thr[t].op = "Insert"
  /\ LET s == tstInsert(thr[t].snap, thr[t].arg)
         root == IF thr[t].store = "tst" THEN s.root
                 ELSE IF thr[t].stale THEN trieRoot
                 ELSE trieInsert(trieRoot, thr[t].arg)
     IN /\ trieRoot' = IF thr[t].store = "trie" THEN root ELSE trieRoot
        /\ tstRoot' = IF thr[t].store = "tst" THEN root ELSE tstRoot
        /\ thr' = [u \in Threads |->
                     IF u = t
                       THEN [thr[t] EXCEPT !.pc = "done",
                               !.res = IF thr[t].store = "tst" THEN s.ret ELSE Done]
                     ELSE IF /\ Walking(u, thr[t].store)
                             /\ Versions(u)[Len(Versions(u))] = thr[t].snap
                             /\ root # thr[t].snap
                       THEN [thr[u] EXCEPT !.seen = Append(@, root)]
                     ELSE thr[u]]
  /\ mu' = [mu EXCEPT ![thr[t].store] = Release(@, t)]
  /\ UNCHANGED <<refTrie, refTst, trieWords, tstWords, before, cleared, nCalls,
                 last, fmt, svc>>

\* Clear ends: t.Root is a new node; the calls in progress on the store
\* hold the root they read before.
FinishClear(t) ==
  /\ thr[t].pc = "in" /\ thr[t].op = "Clear"
  /\ trieRoot' = IF thr[t].store = "trie" THEN trieClear ELSE trieRoot
  /\ tstRoot' = IF thr[t].store = "tst" THEN tstClear ELSE tstRoot
  /\ thr' = [u \in Threads |->
               IF u = t THEN [thr[t] EXCEPT !.pc = "done", !.res = Done]
               ELSE IF thr[u].pc = "in" /\ thr[u].store = thr[t].store
                 THEN [thr[u] EXCEPT !.stale = TRUE]
               ELSE thr[u]]
  /\ mu' = [mu EXCEPT ![thr[t].store] = Release(@, t)]
  /\ UNCHANGED <<refTrie, refTst, trieWords, tstWords, before, cleared, nCalls,
                 last, fmt, svc>>

\* An Insert is inside the store that goroutine t reads.
Racing(t) ==
  \E u \in Threads \ {t} :
    thr[u].pc = "in" /\ thr[u].store = thr[t].store /\ thr[u].op = "Insert"

\* A reading call ends.  It walked the graph of the root it read; that graph
\* is the store's unless a Clear replaced the root.  A walk that ran while an
\* Insert wrote the same store is a data race; the ternary store's
\* ListContents then returns what its reads, each at its own instant, found.
FinishRead(t) ==
  /\ thr[t].pc = "in"
  /\ thr[t].op \in { "Contains", "Autocomplete", "ListContents", "Visualize" }
  /\ \E g \in { thr[t].snap } \cup
              (IF thr[t].stale THEN {} ELSE { RootOf(thr[t].store) }) :
       \E r \in ReadResults(thr[t].store, thr[t].op, thr[t].arg, g)
                  \cup (IF Racing(t) THEN { Crashed } ELSE {})
                  \cup (IF thr[t].store = "tst" /\ thr[t].op = "ListContents"
                          THEN tstListContentsDuring(Versions(t)) ELSE {}) :
         thr' = [thr EXCEPT ![t].pc = "done", ![t].res = r]
  /\ mu' = [mu EXCEPT ![thr[t].store] = Release(@, t)]
  /\ UNCHANGED <<trieRoot, tstRoot, refTrie, refTst, trieWords, tstWords, before,
                 cleared, nCalls, last, fmt, svc>>

\* The stores as New constructs them, with or without a keyword.
ConcInit ==
  \E seed \in Seeds :
    /\ trieRoot = (IF seed = <<>> THEN newTrie ELSE trieInsert(newTrie, seed))
    /\ refTrie = trieRoot
    /\ tstRoot = newTernarySearchTree(seed)
    /\ refTst = tstRoot
    /\ trieWords = {seed} \ { <<>> }
    /\ tstWords = {seed} \ { <<>> }
    /\ before = [trie |-> {}, tst |-> {}]
    /\ cleared = FALSE
    /\ nCalls = 0
    /\ last = Call("New", seed, Done, Done, Done, Done)
    /\ NoThreads

ConcNext ==
  \/ \E t \in Threads, store \in Stores, op \in Ops :
       \E arg \in ArgsOf(op) : Begin(t, store, op, arg)
  \/ \E t \in Threads : FinishInsert(t)
  \/ \E t \in Threads : FinishClear(t)
  \/ \E t \in Threads : FinishRead(t)

ConcSpec == ConcInit /\ [][ConcNext]_vars

InCall(t, store) == thr[t].pc = "in" /\ thr[t].store = store

\* C13: while an Insert or a Clear is inside a store no other call is inside
\* that store, and the Insert or Clear holds the store's lock in write mode.
WritersExclusive ==
  \A t \in Threads, store \in Stores :
    (InCall(t, store) /\ thr[t].op \in { "Insert", "Clear" }) =>
      /\ mu[store].writer = t
      /\ \A u \in Threads \ {t} : ~InCall(u, store)

\* C14: a Contains, Autocomplete or ListContents that is inside a store
\* holds the store's lock in shared mode, and no Insert is inside that store.
ReadersShareLock ==
  \A t \in Threads, store \in Stores :
    (InCall(t, store) /\ thr[t].op \in { "Contains", "Autocomplete", "ListContents" }) =>
      /\ t \in mu[store].readers
      /\ \A u \in Threads \ {t} : ~(InCall(u, store) /\ thr[u].op = "Insert")

\* C18: a step of a Visualize call, whether the call succeeds or fails,
\* leaves the root and the node graph of both stores as they were, and the
\* call holds the store's lock in shared mode while it is inside the store.
VisualizeReadOnly ==
  /\ [][ \A t \in Threads :
           (thr'[t].pc # thr[t].pc /\ thr'[t].op = "Visualize") =>
             (trieRoot' = trieRoot /\ tstRoot' = tstRoot) ]_vars
  /\ [](\A t \in Threads, store \in Stores :
          (InCall(t, store) /\ thr[t].op = "Visualize") => t \in mu[store].readers)

\* One Visualize returned an error and another succeeded.
VisualizedBothWays ==
  \E t, u \in Threads :
    /\ thr[t].pc = "done" /\ thr[t].op = "Visualize" /\ thr[t].res.out = "error"
    /\ thr[u].pc = "done" /\ thr[u].op = "Visualize" /\ thr[u].res.out = "ok"

\* C17: Visualize, given a writer that never fails, returns an error exactly
\* when the store it reads has no root; so on a ternary store that holds no
\* word it ends as it does on a newly constructed empty ternary store, the
\* store having been cleared or not.
VisualizeFailsIffNoRoot ==
  \A t \in Threads :
    (thr[t].pc = "done" /\ thr[t].op = "Visualize") =>
      /\ thr[t].res.out \in { "ok", "error" }
      /\ thr[t].res.out = "error" <=> thr[t].snap = NIL
      /\ (thr[t].store = "tst" /\ tstListContents(thr[t].snap) = Listed(<<>>)) =>
           thr[t].res.out = tstVisualize(newTernarySearchTree(<<>>)).out

\* The words a store holds: those Contains reports, of the words any caller
\* or constructor used.
Held(store) ==
  { w \in ConcWords \cup (Seeds \ { <<>> }) :
      IF store = "trie" THEN trieContains(trieRoot, w).found
      ELSE tstContains(tstRoot, w).found }

\* C26: when a Clear and an Insert(w) on the same store, concurrent or not,
\* have both returned (no other Insert or Clear having been called on that
\* store), the store holds no word or w alone: no word inserted before the
\* Clear is left in it.
ClearInsertAtomic ==
  \A t, u \in Threads, store \in Stores :
    ( /\ thr[t].pc = "done" /\ thr[t].store = store /\ thr[t].op = "Clear"
      /\ thr[u].pc = "done" /\ thr[u].store = store /\ thr[u].op = "Insert"
      /\ \A v \in Threads \ { t, u } :
           ~(thr[v].store = store /\ thr[v].op \in { "Insert", "Clear" }) )
    => Held(store) \subseteq { thr[u].arg }

(***************************************************************************)
(* Listings while other goroutines insert: a goroutine whose Insert        *)
(* returned may call Insert again.                                         *)
(***************************************************************************)

\* The words inserted during the listings: "a", "b".
ListWords == { <<97>>, <<98>> }

\* Goroutine t, whose Insert returned, is ready for its next call.
Again(t) ==
  /\ nCalls < MaxCalls
  /\ thr[t].pc = "done" /\ thr[t].op = "Insert"
  /\ thr' = [thr EXCEPT ![t] = idle]
  /\ nCalls' = nCalls + 1
  /\ UNCHANGED <<trieRoot, tstRoot, refTrie, refTst, trieWords, tstWords, before,
                 cleared, last, mu, fmt, svc>>

ListNext ==
  \/ \E t \in Threads, store \in Stores, word \in ListWords :
       Begin(t, store, "Insert", word)
  \/ \E t \in Threads, store \in Stores, prefix \in ListWords :
       Begin(t, store, "Autocomplete", prefix)
  \/ \E t \in Threads, store \in Stores : Begin(t, store, "ListContents", <<>>)
  \/ \E t \in Threads : FinishInsert(t)
  \/ \E t \in Threads : FinishRead(t)
  \/ \E t \in Threads : Again(t)

ListSpec == ConcInit /\ [][ListNext]_vars

\* C27: the sequence a ListContents or Autocomplete call returned is what
\* the call returns from the store as it was at one instant between the
\* call's start and its return, Insert calls having run meanwhile or not.
ListingIsSnapshot ==
  \A t \in Threads :
    ( /\ thr[t].pc = "done" /\ thr[t].op \in { "Autocomplete", "ListContents" }
      /\ thr[t].res.out = "ok" )
    => \E i \in DOMAIN Versions(t) :
         thr[t].res \in ReadResults(thr[t].store, thr[t].op, thr[t].arg, Versions(t)[i])

(***************************************************************************)
(* Waiting for the lock.  A goroutine makes a call, waits until the lock   *)
(* the method takes is free, is inside the call, and returns or panics;    *)
(* the deferred unlock runs either way.                                    *)
(***************************************************************************)

\* The words and prefixes of these callers: "" (on which the ternary store's
\* Insert and Contains panic) and "a".
LockWords == { <<>>, <<97>> }

LockArgsOf(op) ==
  IF op \in { "Insert", "Contains", "Autocomplete" } THEN LockWords ELSE { <<>> }

\* Goroutine t calls a method of a store.
CallStore(t, store, op, arg) ==
  /\ thr[t].pc = "idle"
  /\ thr' = [thr EXCEPT ![t] =
               [idle EXCEPT !.op = op, !.store = store, !.arg = arg, !.pc = "wait"]]
  /\ UNCHANGED <<trieRoot, tstRoot, refTrie, refTst, trieWords, tstWords, before,
                 cleared, nCalls, last, mu, fmt, svc>>

\* The lock is granted (or the method takes none) and the call proceeds.
Obtain(t) ==
  thr[t].pc = "wait" /\ Enter(t, thr[t].store, thr[t].op, thr[t].arg)

\* The call of goroutine t ends.
Return(t) == FinishInsert(t) \/ FinishClear(t) \/ FinishRead(t)

LockNext ==
  \/ \E t \in Threads, store \in Stores, op \in Ops :
       \E arg \in LockArgsOf(op) : CallStore(t, store, op, arg)
  \/ \E t \in Threads : Obtain(t)
  \/ \E t \in Threads : Return(t)

\* A goroutine that can take the lock takes it, and one that is inside a
\* call runs to the end of it.
LockSpec ==
  ConcInit /\ [][LockNext]_vars
    /\ \A t \in Threads : WF_vars(Obtain(t)) /\ WF_vars(Return(t))

\* Goroutine t holds the lock of the store, in either mode.
Holds(t, store) == mu[store].writer = t \/ t \in mu[store].readers

\* C23: a call that is about to take a store's lock holds no lock (locking
\* is not nested), a call that has ended, by returning or by panicking, holds
\* none (no lock is leaked), a call inside a store holds at most that
\* store's lock, and from some moment on no call is waiting for a lock or
\* inside a store: every call that was made has obtained the lock and ended.
LockNeverLeaked ==
  /\ [](\A t \in Threads, store \in Stores :
          Holds(t, store) => (thr[t].pc = "in" /\ thr[t].store = store))
  /\ <>[](\A t \in Threads : thr[t].pc \in { "idle", "done" })

\* Insert("") on the ternary store panicked under the write lock, and another
\* Insert on the same store then obtained that lock.
LockedAfterPanic ==
  \E t, u \in Threads :
    /\ thr[t].pc = "done" /\ thr[t].store = "tst" /\ thr[t].op = "Insert"
    /\ thr[t].res.out = "panic"
    /\ InCall(u, "tst") /\ thr[u].op = "Insert" /\ mu["tst"].writer = u

(***************************************************************************)
(* A batch of concurrent readers on stores that no goroutine writes.       *)
(***************************************************************************)

\* The keyword lists New is given before the batch: none, "ab", "a" and
\* "ab", "aé".
Keywords ==
  { <<>>, << <<97, 98>> >>, << <<97>>, <<97, 98>> >>, << <<97, 195, 169>> >> }

\* The words and prefixes the readers ask for: "", "a", "ab".
ReadWords == { <<>>, <<97>>, <<97, 98>> }

\* `for _, keyword := range keywords { service.store.Insert(keyword) }`
RECURSIVE trieInsertAll(_, _)
trieInsertAll(root, ks) ==
  IF ks = <<>> THEN root ELSE trieInsertAll(trieInsert(root, Head(ks)), Tail(ks))

RECURSIVE tstInsertAll(_, _)
tstInsertAll(root, ks) ==
  IF ks = <<>> THEN root ELSE tstInsertAll(tstInsert(root, Head(ks)).root, Tail(ks))

\* The stores when the batch starts; refTrie and refTst keep that state.
ReadInit ==
  \E ks \in Keywords :
    /\ trieRoot = trieInsertAll(newTrie, ks)
    /\ refTrie = trieRoot
    /\ tstRoot = tstInsertAll(newTernarySearchTree(<<>>), ks)
    /\ refTst = tstRoot
    /\ trieWords = Range(ks)
    /\ tstWords = Range(ks)
    /\ before = [trie |-> {}, tst |-> {}]
    /\ cleared = FALSE
    /\ nCalls = 0
    /\ last = Call("New", <<>>, Done, Done, Done, Done)
    /\ NoThreads

\* The steps of reader t: it begins a Contains or an Autocomplete, or ends it.
ReadStep(t) ==
  \/ \E store \in Stores, op \in { "Contains", "Autocomplete" }, arg \in ReadWords :
       Begin(t, store, op, arg)
  \/ FinishRead(t)

ReadNext == \E t \in Threads : ReadStep(t)

\* A goroutine that can run is run.
ReadSpec == ReadInit /\ [][ReadNext]_vars /\ \A t \in Threads : WF_vars(ReadStep(t))

StartRoot(store) == IF store = "trie" THEN refTrie ELSE refTst

Datas ==
  { <<>>,
    <<"[", "q", ",", "q", "]">>,            \* ["keyword1","keyword2"]
    <<"[", "]">>,
    <<"[", "q", ",", "q">>,                 \* not closed
    <<"[", "w", "]">>,                      \* a bare word in brackets
    <<"w", "\n", "w", "\n", "w">>,          \* three lines
    <<"w", "\n", "w", "\n">>,               \* two lines and a last newline
    <<"w">>,
    <<"w", ",", "w", ",", "w">>,            \* one row of three fields
    <<"w", "\n", "w", "\n", "q", "\n">>,    \* a header row and two rows
    <<"w", ",", "w", "\n", "w">>,           \* rows of two and one field
    <<"w", "q">>,                           \* a quote inside a bare field
    <<"-", "w", "\n", "-", "w">>,           \* a block list of two words
    <<"-", "q", "\n">> }

\* The file names FormatRead is given: k.json, k.txt, k.csv, k.yaml, k.yml,
\* k, json, k.tar.json, k. and .csv
FileNames ==
  { <<"k", ".", "json">>, <<"k", ".", "txt">>, <<"k", ".", "csv">>,
    <<"k", ".", "yaml">>, <<"k", ".", "yml">>, <<"k">>, <<"json">>,
    <<"k", ".", "tar", ".", "json">>, <<"k", ".">>, <<".", "csv">> }

\* strings.Split(s, sep) for a one-token separator: the pieces between the
\* separators, one more than there are separators.
RECURSIVE Split(_, _)
Split(s, sep) ==
  IF \A i \in DOMAIN s : s[i] # sep THEN << s >>
  ELSE LET i == CHOOSE j \in DOMAIN s :
                  s[j] = sep /\ \A k \in 1 .. (j - 1) : s[k] # sep
       IN << SubSeq(s, 1, i - 1) >> \o Split(SubSeq(s, i + 1, Len(s)), sep)

\* detectFileType: the part after the last dot, "" when there is no dot.
detectFileType(fileName) ==
  LET parts == Split(fileName, ".")
  IN IF Len(parts) < 2 THEN <<>> ELSE parts[Len(parts)]

\* s without the tokens that are white space to the decoder.
RECURSIVE Strip(_)
Strip(s) ==
  IF s = <<>> THEN <<>>
  ELSE IF Head(s) = "\n" THEN Strip(Tail(s))
  ELSE << Head(s) >> \o Strip(Tail(s))

\* The items of a comma-separated list, each of them one token of `allowed`;
\* none when the tokens are not such a list.
ListItems(s, allowed) ==
  IF s = <<>> THEN [err |-> FALSE, list |-> <<>>]
  ELSE LET items == Split(s, ",")
       IN IF \A i \in DOMAIN items : Len(items[i]) = 1 /\ items[i][1] \in allowed
            THEN [err |-> FALSE, list |-> [i \in DOMAIN items |-> <<"w">>]]
          ELSE [err |-> TRUE, list |-> <<>>]

\* json.Unmarshal(data, &obj) for obj a []string: an array of strings
\* decodes to the strings without their quotes, anything else is an error.
jsonUnmarshal(data) ==
  LET s == Strip(data)
  IN IF Len(s) >= 2 /\ s[1] = "[" /\ s[Len(s)] = "]"
       THEN ListItems(SubSeq(s, 2, Len(s) - 1), { "q" })
     ELSE [err |-> TRUE, list |-> <<>>]

\* The lines of a text that are not empty.
RECURSIVE NonEmpty(_)
NonEmpty(ls) ==
  IF ls = <<>> THEN <<>>
  ELSE IF Head(ls) = <<>> THEN NonEmpty(Tail(ls))
  ELSE << Head(ls) >> \o NonEmpty(Tail(ls))

\* yaml.Unmarshal(data, &obj) for obj a []string, on the documents of Datas:
\* an empty document, a block list ("- item" lines) and a flow list decode;
\* a scalar and a broken list do not.
yamlUnmarshal(data) ==
  LET ls == NonEmpty(Split(data, "\n"))
      s == Strip(data)
  IN IF s = <<>> THEN [err |-> FALSE, list |-> <<>>]
     ELSE IF \A i \in DOMAIN ls :
               Len(ls[i]) = 2 /\ ls[i][1] = "-" /\ ls[i][2] \in { "w", "q" }
       THEN [err |-> FALSE, list |-> [i \in DOMAIN ls |-> <<"w">>]]
     ELSE IF Len(s) >= 2 /\ s[1] = "[" /\ s[Len(s)] = "]"
       THEN ListItems(SubSeq(s, 2, Len(s) - 1), { "w", "q" })
     ELSE [err |-> TRUE, list |-> <<>>]

\* One field of a csv record: a quoted field stands for its content, a
\* quote in a field that holds anything else is an error.
csvField(f) == IF f = <<"q">> THEN <<"w">> ELSE f

csvFieldBad(f) == f # <<"q">> /\ \E i \in DOMAIN f : f[i] = "q"

\* csv.NewReader(data).ReadAll(): the records of the lines that are not
\* empty; every record has as many fields as the first.
csvReadAll(data) ==
  LET ls == NonEmpty(Split(data, "\n"))
      recs == [i \in DOMAIN ls |-> Split(ls[i], ",")]
  IN IF \E i \in DOMAIN recs :
          \/ Len(recs[i]) # Len(recs[1])
          \/ \E j \in DOMAIN recs[i] : csvFieldBad(recs[i][j])
       THEN [err |-> TRUE, list |-> <<>>]
     ELSE [err |-> FALSE,
           list |-> [i \in DOMAIN recs |->
                       [j \in DOMAIN recs[i] |-> csvField(recs[i][j])]]]

\* `for _, innerObj := range full { results = append(results, innerObj...) }`
RECURSIVE Flatten(_)
Flatten(recs) ==
  IF recs = <<>> THEN <<>> ELSE Head(recs) \o Flatten(Tail(recs))

\* What FormatRead gives its caller: the keywords and the error ("" is the
\* nil error), or a panic.
FormatOk(keywords) == [out |-> "ok", err |-> "", keywords |-> keywords]

FormatErr(err) == [out |-> "ok", err |-> err, keywords |-> <<>>]

FormatPanic == [out |-> "panic", err |-> "", keywords |-> <<>>]

\* DefaultFormat.FormatRead.  The yaml case has no return of its own: after
\* a successful Unmarshal it leaves the switch and reaches the final
\* `return nil, errors.New("Unhandled error")`.  The csv case slices
\* full[1:], which panics when there is no record.
FormatRead(data, fileName) ==
  LET fType == detectFileType(fileName)
  IN IF fType = <<"json">> THEN
       LET obj == jsonUnmarshal(data)
       IN IF obj.err THEN FormatErr("json") ELSE FormatOk(obj.list)
     ELSE IF fType = <<"txt">> THEN FormatOk(Split(data, "\n"))
     ELSE IF fType = <<"csv">> THEN
       LET full == csvReadAll(data)
       IN IF full.err THEN FormatErr("csv")
          ELSE IF full.list = <<>> THEN FormatPanic
          ELSE FormatOk(Flatten(Tail(full.list)))
     ELSE IF fType = <<"yaml">> THEN
       LET obj == yamlUnmarshal(data)
       IN IF obj.err THEN FormatErr("yaml") ELSE FormatErr("Unhandled error")
     ELSE FormatErr("Invalid file type")

FormatInit ==
  /\ trieRoot = newTrie /\ refTrie = newTrie
  /\ tstRoot = NIL /\ refTst = NIL
  /\ trieWords = {} /\ tstWords = {}
  /\ before = [trie |-> {}, tst |-> {}]
  /\ cleared = FALSE
  /\ nCalls = 0
  /\ last = Call("New", <<>>, Done, Done, Done, Done)
  /\ mu = [s \in {"trie", "tst"} |-> newMutex]
  /\ thr = [t \in Threads |-> idle]
  /\ NoFormat
  /\ NoService

\* A caller reads a file and has FormatRead decode it.
CallFormatRead(data, fileName) ==
  /\ fmt' = [pc |-> "done", data |-> data, fileName |-> fileName,
             res |-> FormatRead(data, fileName)]
  /\ UNCHANGED <<trieRoot, tstRoot, refTrie, refTst, trieWords, tstWords, before,
                 cleared, nCalls, last, mu, thr, svc>>

FormatNext == \E data \in Datas, fileName \in FileNames : CallFormatRead(data, fileName)

FormatSpec == FormatInit /\ [][FormatNext]_vars

\* C19: FormatRead returns a nil error and the decoded keywords when the
\* file name ends in .json, .txt, .csv or .yaml and the data is well formed
\* for that type (for csv: a header row and the keyword rows after it; for
\* yaml: a list of at least one keyword), and the decoder's error when the
\* data does not decode.
FormatReadDecodes ==
  fmt.pc = "done" =>
    LET fType == detectFileType(fmt.fileName)
        json == jsonUnmarshal(fmt.data)
        csv == csvReadAll(fmt.data)
        yaml == yamlUnmarshal(fmt.data)
    IN /\ (fType = <<"json">> /\ ~json.err) => fmt.res = FormatOk(json.list)
       /\ (fType = <<"json">> /\ json.err) => fmt.res = FormatErr("json")
       /\ fType = <<"txt">> => fmt.res = FormatOk(Split(fmt.data, "\n"))
       /\ (fType = <<"csv">> /\ ~csv.err /\ csv.list # <<>>) =>
            fmt.res = FormatOk(Flatten(Tail(csv.list)))
       /\ (fType = <<"csv">> /\ csv.err) => fmt.res = FormatErr("csv")
       /\ (fType = <<"yaml">> /\ ~yaml.err /\ yaml.list # <<>>) =>
            fmt.res = FormatOk(yaml.list)
       /\ (fType = <<"yaml">> /\ yaml.err) => fmt.res = FormatErr("yaml")

(***************************************************************************)
(* AutocompleteService (autocomplete.go).  Provider 1 is                   *)
(* Config.SnapshotDest.Provider, provider 1 + i is DataSources[i].Provider *)
(* (i from 1); whether a provider's Close fails is the provider's affair.  *)
(* An error is the sequence of the providers whose failures it reports.    *)
(* svc.op, svc.arg and svc.res are the latest call of the service, its     *)
(* argument and what it returned.  CloseSpec makes Add and Close calls,    *)
(* ServiceSpec the calls of every method but AddSnapshotDest: the          *)
(* configuration stays the one the service was constructed with.           *)
(***************************************************************************)

\* The words the service's callers add: "a", "ab".
SvcWords == { <<97>>, <<97, 98>> }

Providers(n) == 1 .. (n + 1)

\* The members of a set of numbers in ascending order.
RECURSIVE Ascending(_)
Ascending(S) ==
  IF S = {} THEN <<>>
  ELSE LET m == CHOOSE x \in S : \A y \in S : x <= y
       IN << m >> \o Ascending(S \ {m})

\* Close that returns at the first provider whose Close fails.
closedUntilFailure(n, fails) ==
  { p \in Providers(n) : \A q \in fails : p <= q }

\* The providers whose Close a Close call calls: the snapshot destination's
\* and every data source's, each error being appended to errs.
closedProviders(n, fails) == Providers(n)

\* New(opts, nil) with LoadDataSourcesOnStart false.
CloseInit ==
  \E low \in BOOLEAN, n \in 0 .. MaxSources :
    /\ trieRoot = newTrie /\ refTrie = newTrie
    /\ tstRoot = newTernarySearchTree(<<>>) /\ refTst = tstRoot
    /\ trieWords = {} /\ tstWords = {}
    /\ before = [trie |-> {}, tst |-> {}]
    /\ cleared = FALSE
    /\ nCalls = 0
    /\ last = Call("New", <<>>, Done, Done, Done, Done)
    /\ mu = [s \in {"trie", "tst"} |-> newMutex]
    /\ thr = [t \in Threads |-> idle]
    /\ NoFormat
    /\ svc = [LowMemoryMode |-> low, nSources |-> n, isClosed |-> FALSE,
              Errors |-> <<>>, LastUpdated |-> "New",
              closes |-> [p \in Providers(n) |-> 0], nClose |-> 0,
              failed |-> {}, ret |-> <<>>, op |-> "New", arg |-> <<>>,
              res |-> Done, invoked |-> <<>>]

\* The service after a call of method op with argument arg that returned res
\* and called the provider methods of invoked, in that order.  Of Close
\* invoked is empty: closes counts the calls of the providers' Close.
Called(op, arg, res, invoked) ==
  [svc EXCEPT !.op = op, !.arg = arg, !.res = res, !.invoked = invoked]

\* Add that inserts whether the service is closed or not.
AddWhenClosed(word) ==
  /\ IF svc.LowMemoryMode
       THEN /\ tstRoot' = tstInsert(tstRoot, word).root
            /\ tstWords' = tstWords \cup {word}
            /\ UNCHANGED <<trieRoot, trieWords>>
     ELSE /\ trieRoot' = trieInsert(trieRoot, word)
          /\ trieWords' = trieWords \cup {word}
          /\ UNCHANGED <<tstRoot, tstWords>>
  /\ svc' = Called("Add", word, Done, <<>>)
  /\ UNCHANGED <<refTrie, refTst, before, cleared, nCalls, last, mu, thr, fmt>>

\* AutocompleteService.Add: nothing when the service is closed, else
\* store.Insert(word) on the store LowMemoryMode chose.
Add(word) ==
  /\ IF svc.isClosed
       THEN UNCHANGED <<trieRoot, tstRoot, trieWords, tstWords>>
     ELSE IF svc.LowMemoryMode
       THEN /\ tstRoot' = tstInsert(tstRoot, word).root
            /\ tstWords' = tstWords \cup {word}
            /\ UNCHANGED <<trieRoot, trieWords>>
     ELSE /\ trieRoot' = trieInsert(trieRoot, word)
          /\ trieWords' = trieWords \cup {word}
          /\ UNCHANGED <<tstRoot, tstWords>>
  /\ svc' = Called("Add", word, Done, <<>>)
  /\ UNCHANGED <<refTrie, refTst, before, cleared, nCalls, last, mu, thr, fmt>>

\* AutocompleteService.Close on a closed service: return nil.
CloseClosed ==
  /\ svc.nClose < MaxCloses
  /\ svc.isClosed
  /\ svc' = [Called("Close", <<>>, Done, <<>>)
               EXCEPT !.nClose = @ + 1, !.failed = {}, !.ret = <<>>]
  /\ UNCHANGED <<trieRoot, tstRoot, refTrie, refTst, trieWords, tstWords, before,
                 cleared, nCalls, last, mu, thr, fmt>>

\* AutocompleteService.Close on an open service.  fails are the providers
\* whose Close returns an error.  With errors: the composite error (the
\* errors in the order met) is appended to Errors and returned.  Without:
\* a.Clear(false), which stamps LastUpdated and clears the store, and
\* isClosed = true.
Close ==
  /\ svc.nClose < MaxCloses
  /\ ~svc.isClosed
  /\ \E fails \in SUBSET Providers(svc.nSources) :
       LET called == closedProviders(svc.nSources, fails)
           errs == Ascending(fails \cap called)
           closes == [p \in Providers(svc.nSources) |->
                        IF p \in called THEN svc.closes[p] + 1 ELSE svc.closes[p]]
       IN IF Len(errs) > 0
            THEN /\ svc' = [Called("Close", <<>>, Failed, <<>>)
                              EXCEPT !.closes = closes, !.nClose = @ + 1,
                                     !.failed = fails, !.ret = errs,
                                     !.Errors = Append(@, errs)]
                 /\ UNCHANGED <<trieRoot, tstRoot, trieWords, tstWords, before,
                                cleared>>
          ELSE /\ svc' = [Called("Close", <<>>, Done, <<>>)
                            EXCEPT !.closes = closes, !.nClose = @ + 1,
                                   !.failed = fails, !.ret = <<>>,
                                   !.LastUpdated = "Clear", !.isClosed = TRUE]
               /\ trieRoot' = IF svc.LowMemoryMode THEN trieRoot ELSE trieClear
               /\ tstRoot' = IF svc.LowMemoryMode THEN tstClear ELSE tstRoot
               /\ before' = [trie |-> before.trie \cup trieWords,
                             tst |-> before.tst \cup tstWords]
               /\ trieWords' = {}
               /\ tstWords' = {}
               /\ cleared' = TRUE
  /\ UNCHANGED <<refTrie, refTst, nCalls, last, mu, thr, fmt>>

CloseNext ==
  \/ \E word \in SvcWords : Add(word)
  \/ CloseClosed
  \/ Close

CloseSpec == CloseInit /\ [][CloseNext]_vars

\* The listing of the store the service uses is empty.
StoreEmpty ==
  IF svc.LowMemoryMode THEN tstListContents(tstRoot) = Listed(<<>>)
  ELSE trieListContents(trieRoot) = { Listed(<<>>) }

\* C20: a Close call on an open service calls Close once on the snapshot
\* destination's provider and on every data source's provider, whichever of
\* them fail.  If some failed, one composite error of all the failures is
\* appended to Errors and returned, the service stays open and the store is
\* as it was.  If none failed, the store is cleared, the service is closed
\* and nil is returned.
CloseClosesAll ==
  [][ (svc'.nClose = svc.nClose + 1 /\ ~svc.isClosed) =>
        /\ \A p \in Providers(svc.nSources) : svc'.closes[p] = svc.closes[p] + 1
        /\ IF svc'.failed # {}
             THEN /\ svc'.ret = Ascending(svc'.failed)
                  /\ svc'.Errors = Append(svc.Errors, svc'.ret)
                  /\ ~svc'.isClosed
                  /\ trieRoot' = trieRoot /\ tstRoot' = tstRoot
           ELSE /\ svc'.ret = <<>>
                /\ svc'.Errors = svc.Errors
                /\ svc'.isClosed
                /\ StoreEmpty' ]_vars

\* A Close in which the snapshot destination's provider and the last of two
\* data sources' providers failed: the service is open, holds its words and
\* has one error.
ClosedWithTwoFailures ==
  /\ svc.nSources = 2 /\ svc.failed = { 1, 3 } /\ svc.ret = << 1, 3 >>
  /\ svc.closes = << 1, 1, 1 >>
  /\ ~svc.isClosed /\ Len(svc.Errors) = 1
  /\ ~svc.LowMemoryMode /\ trieWords = { <<97>>, <<97, 98>> }

(***************************************************************************)
(* Every method of the service.  What ReadData and DumpData do is the      *)
(* provider's affair: ReadData inserts the keywords it read into the store *)
(* it is handed and may fail, DumpData lists that store and may fail.      *)
(* LastUpdated is the kind of call that stamped it last: "New", "Clear" or *)
(* "Load" (a method that read a data source).                              *)
(***************************************************************************)

\* The keywords a ReadData call reads: none, "a", or "a" and "ab".
SvcFiles == { <<>>, << <<97>> >>, << <<97>>, <<97, 98>> >> }

\* A call of method m of provider p.
Invoked(p, m) == [provider |-> p, method |-> m]

\* The methods that hand the store to a provider.
DataMethods ==
  { "LoadDataSources", "LoadDataSource", "CreateSnapshot", "RestoreFromSnapshot",
    "ExportToDataSource" }

\* The store of the service after store.Insert of each keyword of ks.
Inserted(ks) ==
  IF svc.LowMemoryMode
    THEN /\ tstRoot' = tstInsertAll(tstRoot, ks)
         /\ tstWords' = tstWords \cup Range(ks)
         /\ UNCHANGED <<trieRoot, trieWords>>
  ELSE /\ trieRoot' = trieInsertAll(trieRoot, ks)
       /\ trieWords' = trieWords \cup Range(ks)
       /\ UNCHANGED <<tstRoot, tstWords>>

\* AutocompleteService.Exists: false when the service is closed, else
\* store.Contains(word).
Exists(word) ==
  /\ svc' = Called("Exists", word,
                   IF svc.isClosed THEN Found(FALSE)
                   ELSE IF svc.LowMemoryMode THEN tstContains(tstRoot, word)
                   ELSE trieContains(trieRoot, word), <<>>)
  /\ UNCHANGED <<trieRoot, tstRoot, refTrie, refTst, trieWords, tstWords, before,
                 cleared, nCalls, last, mu, thr, fmt>>

\* AutocompleteService.Complete: []string{} when the service is closed, else
\* store.Autocomplete(prefix).
Complete(prefix) ==
  /\ \E r \in (IF svc.isClosed THEN { Listed(<<>>) }
               ELSE IF svc.LowMemoryMode THEN { tstAutocomplete(tstRoot, prefix) }
               ELSE trieAutocomplete(trieRoot, prefix)) :
       svc' = Called("Complete", prefix, r, <<>>)
  /\ UNCHANGED <<trieRoot, tstRoot, refTrie, refTst, trieWords, tstWords, before,
                 cleared, nCalls, last, mu, thr, fmt>>

\* AutocompleteService.GetContents: []string{} when the service is closed,
\* else store.ListContents(); word is not used.
GetContents(word) ==
  /\ \E r \in (IF svc.isClosed THEN { Listed(<<>>) }
               ELSE IF svc.LowMemoryMode THEN { tstListContents(tstRoot) }
               ELSE trieListContents(trieRoot)) :
       svc' = Called("GetContents", <<>>, r, <<>>)
  /\ UNCHANGED <<trieRoot, tstRoot, refTrie, refTst, trieWords, tstWords, before,
                 cleared, nCalls, last, mu, thr, fmt>>

\* AutocompleteService.Clear: stamps LastUpdated and clears the store,
\* closed or not.
ServiceClear ==
  /\ svc' = [Called("Clear", <<>>, Done, <<>>) EXCEPT !.LastUpdated = "Clear"]
  /\ trieRoot' = IF svc.LowMemoryMode THEN trieRoot ELSE trieClear
  /\ tstRoot' = IF svc.LowMemoryMode THEN tstClear ELSE tstRoot
  /\ before' = [trie |-> before.trie \cup trieWords,
                tst |-> before.tst \cup tstWords]
  /\ trieWords' = {}
  /\ tstWords' = {}
  /\ cleared' = TRUE
  /\ UNCHANGED <<refTrie, refTst, nCalls, last, mu, thr, fmt>>

\* AutocompleteService.LoadDataSources: an error when the service is closed;
\* else ReadData of each data source in turn up to the first that fails
\* (source k; 0 when none does), whose error is appended to Errors and
\* returned.  ks are the keywords the calls inserted.
LoadDataSources ==
  /\ nCalls < MaxLoads
  /\ nCalls' = nCalls + 1
  /\ IF svc.isClosed
       THEN /\ svc' = Called("LoadDataSources", <<>>, Failed, <<>>)
            /\ UNCHANGED <<trieRoot, tstRoot, trieWords, tstWords>>
     ELSE \E k \in 0 .. svc.nSources, ks \in SvcFiles :
            LET read == IF k = 0 THEN svc.nSources ELSE k
                invoked == [i \in 1 .. read |-> Invoked(i + 1, "ReadData")]
            IN /\ read = 0 => ks = <<>>
               /\ Inserted(ks)
               /\ svc' = IF k = 0
                           THEN [Called("LoadDataSources", <<>>, Done, invoked)
                                   EXCEPT !.LastUpdated = "Load"]
                         ELSE [Called("LoadDataSources", <<>>, Failed, invoked)
                                 EXCEPT !.Errors = Append(@, << k + 1 >>)]
  /\ UNCHANGED <<refTrie, refTst, before, cleared, last, mu, thr, fmt>>

\* AutocompleteService.CreateSnapshot: an error when the service is closed;
\* else DumpData of the snapshot destination, whose error is appended to
\* Errors and returned.
CreateSnapshot ==
  /\ nCalls < MaxLoads
  /\ nCalls' = nCalls + 1
  /\ IF svc.isClosed
       THEN svc' = Called("CreateSnapshot", <<>>, Failed, <<>>)
     ELSE \E ok \in BOOLEAN :
            svc' = IF ok
                     THEN Called("CreateSnapshot", <<>>, Done,
                                 << Invoked(1, "DumpData") >>)
                   ELSE [Called("CreateSnapshot", <<>>, Failed,
                                << Invoked(1, "DumpData") >>)
                           EXCEPT !.Errors = Append(@, << 1 >>)]
  /\ UNCHANGED <<trieRoot, tstRoot, refTrie, refTst, trieWords, tstWords, before,
                 cleared, last, mu, thr, fmt>>

\* ReadData of provider p for method op with argument arg, the service being
\* open: the keywords are inserted; an error is appended to Errors and
\* returned, else LastUpdated is stamped.
ReadFrom(op, arg, p) ==
  \E ok \in BOOLEAN, ks \in SvcFiles :
    /\ Inserted(ks)
    /\ svc' = IF ok
                THEN [Called(op, arg, Done, << Invoked(p, "ReadData") >>)
                        EXCEPT !.LastUpdated = "Load"]
              ELSE [Called(op, arg, Failed, << Invoked(p, "ReadData") >>)
                      EXCEPT !.Errors = Append(@, << p >>)]

\* AutocompleteService.RestoreFromSnapshot: an error when the service is
\* closed; else ReadData of the snapshot destination.
RestoreFromSnapshot ==
  /\ nCalls < MaxLoads
  /\ nCalls' = nCalls + 1
  /\ IF svc.isClosed
       THEN /\ svc' = Called("RestoreFromSnapshot", <<>>, Failed, <<>>)
            /\ UNCHANGED <<trieRoot, tstRoot, trieWords, tstWords>>
     ELSE ReadFrom("RestoreFromSnapshot", <<>>, 1)
  /\ UNCHANGED <<refTrie, refTst, before, cleared, last, mu, thr, fmt>>

\* AutocompleteService.LoadDataSource(src), src being the data source of
\* provider p: an error when the service is closed; else ReadData of src.
LoadDataSource(p) ==
  /\ nCalls < MaxLoads
  /\ nCalls' = nCalls + 1
  /\ IF svc.isClosed
       THEN /\ svc' = Called("LoadDataSource", << p >>, Failed, <<>>)
            /\ UNCHANGED <<trieRoot, tstRoot, trieWords, tstWords>>
     ELSE ReadFrom("LoadDataSource", << p >>, p)
  /\ UNCHANGED <<refTrie, refTst, before, cleared, last, mu, thr, fmt>>

\* AutocompleteService.ExportToDataSource(dest), dest being the data source
\* of provider p: DumpData of dest, whose error is appended to Errors and
\* returned.  isClosed is not looked at.
ExportToDataSource(p) ==
  /\ nCalls < MaxLoads
  /\ nCalls' = nCalls + 1
  /\ \E ok \in BOOLEAN :
       svc' = IF ok
                THEN Called("ExportToDataSource", << p >>, Done,
                            << Invoked(p, "DumpData") >>)
              ELSE [Called("ExportToDataSource", << p >>, Failed,
                           << Invoked(p, "DumpData") >>)
                      EXCEPT !.Errors = Append(@, << p >>)]
  /\ UNCHANGED <<trieRoot, tstRoot, refTrie, refTst, trieWords, tstWords, before,
                 cleared, last, mu, thr, fmt>>

ServiceNext ==
  \/ \E word \in SvcWords : Add(word)
  \/ \E word \in SvcWords : Exists(word)
  \/ \E prefix \in SvcWords : Complete(prefix)
  \/ \E word \in SvcWords : GetContents(word)
  \/ ServiceClear
  \/ CloseClosed
  \/ Close
  \/ LoadDataSources
  \/ CreateSnapshot
  \/ RestoreFromSnapshot
  \/ \E p \in Providers(svc.nSources) : LoadDataSource(p)
  \/ \E p \in Providers(svc.nSources) : ExportToDataSource(p)

ServiceSpec == CloseInit /\ [][ServiceNext]_vars

\* C31: a closed service stays closed and does nothing: whatever is called
\* on it, it is closed afterwards; Add leaves the store as it was, Exists
\* returns false, Complete and GetContents return the empty sequence, and
\* Close returns nil without calling Close on any provider.
ClosedIsInert ==
  [][ svc.isClosed =>
        /\ svc'.isClosed
        /\ svc'.op = "Add" =>
             /\ trieRoot' = trieRoot /\ tstRoot' = tstRoot
             /\ StoreEmpty'
        /\ svc'.op = "Exists" => svc'.res = Found(FALSE)
        /\ svc'.op \in { "Complete", "GetContents" } => svc'.res = Listed(<<>>)
        /\ svc'.op = "Close" =>
             /\ svc'.res = Done /\ svc'.ret = <<>>
             /\ svc'.closes = svc.closes ]_vars

\* Add("ab") on a service of two data sources that Close closed after the
\* store held "a" and "ab".
AddedAfterClose ==
  /\ svc.isClosed /\ svc.nSources = 2 /\ svc.closes = << 1, 1, 1 >>
  /\ svc.op = "Add" /\ svc.arg = << 97, 98 >>
  /\ before.trie = { <<97>>, <<97, 98>> } /\ trieWords = {}

\* C32: on a closed service LoadDataSources, LoadDataSource, CreateSnapshot,
\* RestoreFromSnapshot and ExportToDataSource return an error and call no
\* method of a provider.
NoProviderAfterClose ==
  (svc.isClosed /\ svc.op \in DataMethods) =>
    (svc.res = Failed /\ svc.invoked = <<>>)

====
